---- MODULE Spec2Model ----
(***************************************************************************)
(* A model of the gitcg deck-image plugin (src/__init__.py):               *)
(*   - decode_share_ids: share code -> 33 share ids (pure function)        *)
(*   - get_card_id_map:  process-wide shareId -> id map, built remotely    *)
(*   - fetch_image:      card image with a local file cache                *)
(*   - generate_deck_image / the two message handlers                      *)
(* Each part has its own specification over the shared variables.          *)
(***************************************************************************)
EXTENDS Integers, Sequences, FiniteSets, TLC

VARIABLES
    token,      \* decode: the b64_string argument, a sequence of characters
    decoded,    \* decode: outcome of decode_share_ids(token)
    SHARE_ID_TO_ID_MAP, \* catalog: the module global (None or a dict)
    mcall,      \* catalog: per task, the state of its get_card_id_map call
    mhist,      \* catalog: the map most recently returned by a call (history)
    image_cache,\* fetch: the files of IMAGE_CACHE_DIR, card id -> content
    fcall,      \* fetch: per task, the state of its fetch_image call
    deck,       \* deck: input and output of the card-id list construction
    hcall       \* handlers: per request, the state of the handler

vars == <<token, decoded, SHARE_ID_TO_ID_MAP, mcall, mhist,
          image_cache, fcall, deck, hcall>>

\* Python's None where a dict may stand, and a dict d in such a place
NoneDict == [none |-> TRUE, dict |-> << >>]
SomeDict(d) == [none |-> FALSE, dict |-> d]

-----------------------------------------------------------------------------
(* Integer and bit arithmetic, as Python computes it.                      *)

RECURSIVE BitAnd(_, _)
\* a & b for non-negative integers
BitAnd(a, b) ==
    IF a = 0 \/ b = 0 THEN 0
    ELSE (IF a % 2 = 1 /\ b % 2 = 1 THEN 1 ELSE 0) + 2 * BitAnd(a \div 2, b \div 2)

RECURSIVE BitOr(_, _)
\* a | b for non-negative integers
BitOr(a, b) ==
    IF a = 0 THEN b
    ELSE IF b = 0 THEN a
    ELSE (IF a % 2 = 1 \/ b % 2 = 1 THEN 1 ELSE 0) + 2 * BitOr(a \div 2, b \div 2)

RECURSIVE Pow2(_)
Pow2(n) == IF n = 0 THEN 1 ELSE 2 * Pow2(n - 1)

\* a << n and a >> n for non-negative a
Shl(a, n) == a * Pow2(n)
Shr(a, n) == a \div Pow2(n)

\* x & 0xff for a Python int x in -255..255: a negative x is taken in two's
\* complement (16 bits are enough to hold it) before the mask is applied
AndFF(x) == BitAnd(IF x < 0 THEN x + 65536 ELSE x, 255)

-----------------------------------------------------------------------------
(* Base64 text.  A character is a one-character string.                    *)

Alphabet ==
    << "A","B","C","D","E","F","G","H","I","J","K","L","M","N","O","P",
       "Q","R","S","T","U","V","W","X","Y","Z","a","b","c","d","e","f",
       "g","h","i","j","k","l","m","n","o","p","q","r","s","t","u","v",
       "w","x","y","z","0","1","2","3","4","5","6","7","8","9","+","/" >>

AlphabetChars == { Alphabet[i] : i \in 1..64 }

\* table_a2b_base64: the 6-bit value of an alphabet character, 64 otherwise
B64Value(c) ==
    IF c \in AlphabetChars THEN (CHOOSE i \in 1..64 : Alphabet[i] = c) - 1 ELSE 64

\* b64_string.replace('-', '+').replace('_', '/')
Translate(s) ==
    [ i \in 1..Len(s) |-> IF s[i] = "-" THEN "+" ELSE IF s[i] = "_" THEN "/" ELSE s[i] ]

RECURSIVE Repeat(_, _)
Repeat(c, n) == IF n <= 0 THEN << >> ELSE <<c>> \o Repeat(c, n - 1)

\* missing_padding = len % 4; if missing_padding: s += '=' * (4 - missing_padding)
AddPadding(s) ==
    LET missing_padding == Len(s) % 4
    IN  IF missing_padding # 0 THEN s \o Repeat("=", 4 - missing_padding) ELSE s

Normalize(s) == AddPadding(Translate(s))

\* base64.b64decode(s) with validate=False, i.e. binascii.a2b_base64 in its
\* non-strict mode: characters outside the alphabet are skipped, a '=' counts
\* only once two characters of a quad have been read, and a completed pad run
\* ends the decoding.  st = [i, quad_pos, leftchar, pad_count, out, done].
\* A2BStep is one turn of the loop over the characters, on character c.
A2BStep(c, st) ==
    LET v  == B64Value(c)
        nx == [st EXCEPT !.i = st.i + 1]
    IN  IF c = "="
        THEN IF st.quad_pos >= 2 /\ st.quad_pos + st.pad_count + 1 >= 4
             THEN [st EXCEPT !.done = TRUE]
             ELSE IF st.quad_pos >= 2
                  THEN [nx EXCEPT !.pad_count = st.pad_count + 1]
                  ELSE nx
        ELSE IF v >= 64
        THEN nx
        ELSE
          CASE st.quad_pos = 0 ->
                 [nx EXCEPT !.pad_count = 0, !.quad_pos = 1, !.leftchar = v]
            [] st.quad_pos = 1 ->
                 [nx EXCEPT !.pad_count = 0, !.quad_pos = 2,
                            !.out = Append(st.out,
                                 BitAnd(BitOr(Shl(st.leftchar, 2), Shr(v, 4)), 255)),
                            !.leftchar = BitAnd(v, 15)]
            [] st.quad_pos = 2 ->
                 [nx EXCEPT !.pad_count = 0, !.quad_pos = 3,
                            !.out = Append(st.out,
                                 BitAnd(BitOr(Shl(st.leftchar, 4), Shr(v, 2)), 255)),
                            !.leftchar = BitAnd(v, 3)]
            [] OTHER ->
                 [nx EXCEPT !.pad_count = 0, !.quad_pos = 0,
                            !.out = Append(st.out,
                                 BitAnd(BitOr(Shl(st.leftchar, 6), v), 255)),
                            !.leftchar = 0]

RECURSIVE A2BLoop(_, _)
A2BLoop(s, st) ==
    IF st.done \/ st.i > Len(s) THEN st ELSE A2BLoop(s, A2BStep(s[st.i], st))

\* the result: the bytes, or binascii.Error when the data ends inside a quad
b64decode(s) ==
    LET st == A2BLoop(s, [i |-> 1, quad_pos |-> 0, leftchar |-> 0, pad_count |-> 0,
                          out |-> << >>, done |-> FALSE])
    IN  IF ~st.done /\ st.quad_pos # 0
        THEN [ok |-> FALSE, bytes |-> << >>]
        ELSE [ok |-> TRUE, bytes |-> st.out]

-----------------------------------------------------------------------------
(* decode_share_ids                                                         *)

ExpectedLen == 51
HalfLen == 25
NumChunks == 17

\* a length check that rejects only short input
LengthAccepted_AtLeast(arr) == Len(arr) >= ExpectedLen

\* the check of line 52 (negated): the decoded length the unpacking accepts
LengthAccepted(arr) == Len(arr) = ExpectedLen

\* a reordering that takes the odd-indexed bytes first
Reorder_OddFirst(arr) ==
    LET last == arr[Len(arr)]
        body == SubSeq(arr, 1, Len(arr) - 1)
    IN  [ k \in 1..(2 * HalfLen + 1) |->
            IF k <= HalfLen THEN AndFF(body[2 * (k - 1) + 2] - last)
            ELSE IF k <= 2 * HalfLen THEN AndFF(body[2 * (k - HalfLen - 1) + 1] - last)
            ELSE 0 ]

\* lines 56-64; arr is 1-indexed here, so arr[2*i] of the code is arr[2*i + 1]
Reorder(arr) ==
    LET last == arr[Len(arr)]
        body == SubSeq(arr, 1, Len(arr) - 1)
    IN  [ k \in 1..(2 * HalfLen + 1) |->
            IF k <= HalfLen THEN AndFF(body[2 * (k - 1) + 1] - last)
            ELSE IF k <= 2 * HalfLen THEN AndFF(body[2 * (k - HalfLen - 1) + 2] - last)
            ELSE 0 ]

\* the second value without the 0x0f mask on b2
N2_NoMask(b2, b3) == BitOr(Shl(b2, 8), b3)

\* lines 75, 76
N1(b1, b2) == BitOr(Shl(b1, 4), Shr(b2, 4))
N2(b2, b3) == BitOr(Shl(BitAnd(b2, 15), 8), b3)

\* lines 67-77: the chunk loop from chunk i (0-based) on; st = [result, broke]
RECURSIVE Chunks(_, _, _)
Chunks(reordered, i, st) ==
    IF i >= NumChunks THEN st
    ELSE LET chunk_start == i * 3
         IN  IF chunk_start + 2 >= Len(reordered)
             THEN [st EXCEPT !.broke = TRUE]
             ELSE LET b1 == reordered[chunk_start + 1]
                      b2 == reordered[chunk_start + 2]
                      b3 == reordered[chunk_start + 3]
                  IN  Chunks(reordered, i + 1,
                             [st EXCEPT !.result = st.result \o <<N1(b1, b2), N2(b2, b3)>>])

\* the whole function: its return value or the ValueError it raises, with the
\* local arr (the Base64-decoded bytes, before the pop) kept beside it
decode_share_ids(b64_string) ==
    LET dec == b64decode(Normalize(b64_string))
    IN  IF ~dec.ok
        THEN [kind |-> "decode_error", ids |-> << >>, len |-> -1, broke |-> FALSE,
              arr |-> << >>]
        ELSE IF ~LengthAccepted(dec.bytes)
        THEN [kind |-> "length_error", ids |-> << >>, len |-> Len(dec.bytes),
              broke |-> FALSE, arr |-> dec.bytes]
        ELSE LET st == Chunks(Reorder(dec.bytes), 0, [result |-> << >>, broke |-> FALSE])
             IN  [kind |-> "ok",
                  ids |-> SubSeq(st.result, 1, Len(st.result) - 1),   \* result.pop()
                  len |-> Len(dec.bytes), broke |-> st.broke, arr |-> dec.bytes]

-----------------------------------------------------------------------------
(* The values the variables of the other parts hold while one part runs.   *)

\* the card identifiers asked for in the fetch specification
FetchIds == { 1101, 211011 }

NumMapTasks == 2
NumFetchTasks == 2
NumRequests == 2
MapTasks == 1..NumMapTasks
FetchTasks == 1..NumFetchTasks
Requests == 1..NumRequests

\* a task that is not inside get_card_id_map; the fields of a call are
\*   ret: the returned dict, fetched: it issued the remote requests,
\*   wrote: it assigned the global, bad: a response was not a success (history),
\*   prior: the dict most recently returned when it started (history)
IdleMapCall ==
    [pc |-> "idle", ret |-> NoneDict, fetched |-> FALSE, wrote |-> FALSE,
     bad |-> FALSE, prior |-> NoneDict]

\* a card id argument: None (the placeholder marker) or an integer
NoneId == [none |-> TRUE, id |-> 0]
SomeId(n) == [none |-> FALSE, id |-> n]

\* the three results of fetch_image: an image built from bytes, the fallback
\* passed by the caller, or an exception leaving the function
ImageOf(bytes) == [kind |-> "image", bytes |-> bytes]
Fallback == [kind |-> "fallback", bytes |-> ""]
Raised == [kind |-> "raised", bytes |-> ""]
NoResult == [kind |-> "none", bytes |-> ""]

\* no file of that name in IMAGE_CACHE_DIR
NoFile == "absent"

\* a task that is not inside fetch_image; the fields of a call are
\*   card: the card_id argument, result: what the call returned,
\*   missed: the cache had no file for card when the call looked (history),
\*   writes: the files the call has written, in order (history),
\*   resp: the response the call received (history)
NoResponse == [kind |-> "none", status |-> 0, body |-> "", read_ok |-> FALSE]
IdleFetchCall ==
    [pc |-> "idle", card |-> NoneId, result |-> NoResult, missed |-> FALSE,
     writes |-> << >>, resp |-> NoResponse]

\* a request slot with no handler running; the fields of a running one are
\*   kind: "deck" (handle_deck_command) or "base64" (handle_base64_event),
\*   code: the share code taken from the message, sent: the messages sent to
\*   the requester, exc: the exception that left the handler, if any,
\*   failure: whether the decode or the catalog resolution failed (history)
IdleHandler ==
    [pc |-> "idle", kind |-> "", code |-> << >>, sent |-> << >>, exc |-> "none",
     failure |-> "none"]

NoDecode ==
    [kind |-> "pending", ids |-> << >>, len |-> -1, broke |-> FALSE, arr |-> << >>]
DecodeIdle == token = << >> /\ decoded = NoDecode
CatalogIdle ==
    /\ SHARE_ID_TO_ID_MAP = NoneDict
    /\ mcall = [t \in MapTasks |-> IdleMapCall]
    /\ mhist = NoneDict
FetchIdle ==
    /\ image_cache = [c \in FetchIds |-> NoFile]
    /\ fcall = [t \in FetchTasks |-> IdleFetchCall]
DeckIdle == deck = [pc |-> "idle", share_ids |-> << >>, id_map |-> << >>, card_ids |-> << >>]
HandlerIdle == hcall = [h \in Requests |-> IdleHandler]

-----------------------------------------------------------------------------
(* Specification SpecDecode: decode_share_ids applied to a family of share *)
(* codes: a periodic filler over sample alphabet characters, of a length   *)
(* around the 68 characters of a real code, with at most one character     *)
(* replaced by a URL-safe, padding or foreign character.                   *)

MaxTokenLen == 71
MinTokenLen == MaxTokenLen - 5
MaxStride == 3
MaxOffset == 4

Sample == << "A", "/", "P", "w", "8", "+", "f", "Z", "q", "3", "g", "D", "0" >>
Specials == << "-", "_", "=", "!", " " >>

FillerChar(i, stride, offset) == Sample[((i * stride + offset) % Len(Sample)) + 1]

SpecialPositions(n) == { 1, 2, 3, n \div 2, n - 2, n - 1, n }

MakeToken(n, stride, offset, p, sp) ==
    [ i \in 1..n |-> IF sp # 0 /\ i = p THEN Specials[sp] ELSE FillerChar(i, stride, offset) ]

InitDecode ==
    /\ \E n \in MinTokenLen..MaxTokenLen, stride \in 0..MaxStride, offset \in 0..MaxOffset :
         \E p \in SpecialPositions(n), sp \in 0..Len(Specials) :
            token = MakeToken(n, stride, offset, p, sp)
    /\ decoded = NoDecode
    /\ CatalogIdle /\ FetchIdle /\ DeckIdle /\ HandlerIdle

DecodeShareIds ==
    /\ decoded.kind = "pending"
    /\ decoded' = decode_share_ids(token)
    /\ UNCHANGED <<token, SHARE_ID_TO_ID_MAP, mcall, mhist, image_cache, fcall,
                   deck, hcall>>

NextDecode == DecodeShareIds

SpecDecode == InitDecode /\ [][NextDecode]_vars

(* Properties of decode_share_ids.  decoded.arr is what the Base64 step    *)
(* yielded for the token; BytesDecoded says that it yielded bytes at all.   *)

BytesDecoded == decoded.kind \in {"ok", "length_error"}

\* C1: a token whose Base64 decoding yields exactly 51 bytes is decoded without
\* an error to exactly 33 integers, each in 0..4095, and the chunk loop's early
\* break is never taken.
C1_FiftyOneBytesGive33Ids ==
    (BytesDecoded /\ Len(decoded.arr) = 51) =>
        /\ decoded.kind = "ok"
        /\ ~decoded.broke
        /\ Len(decoded.ids) = 33
        /\ \A i \in 1..Len(decoded.ids) : decoded.ids[i] \in 0..4095

\* a 51-byte input needing the wrap-around of the subtraction and producing a
\* value that uses the top bit of the 12
C1_Witness ==
    /\ decoded.kind = "ok"
    /\ \E i \in 1..50 : decoded.arr[i] < decoded.arr[51]
    /\ \E i \in 1..Len(decoded.ids) : decoded.ids[i] >= 2048

\* the reference unpacking of C2, in plain arithmetic on the 51 bytes a
RefR(a, k) ==
    IF k < 25 THEN (a[2 * k + 1] - a[51]) % 256
    ELSE IF k < 50 THEN (a[2 * (k - 25) + 2] - a[51]) % 256
    ELSE 0
RefValue(a, m) ==
    LET j == m \div 2
    IN  IF m % 2 = 0 THEN RefR(a, 3 * j) * 16 + (RefR(a, 3 * j + 1) \div 16)
        ELSE (RefR(a, 3 * j + 1) % 16) * 256 + RefR(a, 3 * j + 2)

\* C2: on a 51-byte input the result is the first 33 of the 34 values of the
\* reference unpacking (de-interleave, subtract the key modulo 256, split each
\* 3-byte chunk into two 12-bit values), in chunk order.
C2_MatchesReferenceUnpacking ==
    (BytesDecoded /\ Len(decoded.arr) = 51) =>
        decoded.ids = [ m \in 1..33 |-> RefValue(decoded.arr, m - 1) ]

\* a decoded token with a non-zero key and at least two different share ids
C2_Witness ==
    /\ decoded.kind = "ok"
    /\ decoded.arr[51] # 0
    /\ \E i, j \in 1..Len(decoded.ids) : decoded.ids[i] # decoded.ids[j]

\* C3: a token that Base64-decodes to a length other than 51 fails with the
\* length-mismatch error, which reports the actual length; no ids are returned.
C3_WrongLengthRejected ==
    (BytesDecoded /\ Len(decoded.arr) # 51) =>
        /\ decoded.kind = "length_error"
        /\ decoded.len = Len(decoded.arr)
        /\ decoded.ids = << >>

\* a token decoding to 52 bytes was rejected
C3_Witness ==
    /\ decoded.kind = "length_error"
    /\ Len(decoded.arr) = 52

\* C4: a token that still holds a character outside the Base64 alphabet
\* (A-Z, a-z, 0-9, '+', '/', '=') after the URL-safe translation fails with
\* the decode error.
C4_ForeignCharacterRejected ==
    (decoded.kind # "pending" /\ \E i \in 1..Len(token) : Translate(token)[i] \notin AlphabetChars \cup {"="})
        => decoded.kind = "decode_error"

-----------------------------------------------------------------------------
(* get_card_id_map.  A dict is a function on its keys; {} is << >>.        *)

EmptyDict == << >>

\* the truth value of the global in "if SHARE_ID_TO_ID_MAP:" (line 93)
Truthy(v) == ~v.none /\ DOMAIN v.dict # {}

\* id_map[k] = v
DictSet(d, k, v) == [ x \in (DOMAIN d) \cup {k} |-> IF x = k THEN v ELSE d[x] ]

\* resp.raise_for_status(): aiohttp raises for a status of 400 and above
ErrorStatus == 400
RaisesForStatus(status) == status >= ErrorStatus

\* lines 109-113: the items of one catalog body, from item i on
RECURSIVE AddItems(_, _, _)
AddItems(id_map, data, i) ==
    IF i > Len(data) THEN id_map
    ELSE LET item == data[i]
         IN  IF item.has_shareId /\ item.has_id /\ item.shareId # 0
             THEN AddItems(DictSet(id_map, item.shareId, item.id), data, i + 1)
             ELSE AddItems(id_map, data, i + 1)

\* lines 105-115: the loop over the responses, from response i on;
\* st = [raised, id_map]
RECURSIVE ProcessResponses(_, _, _)
ProcessResponses(responses, i, st) ==
    IF i > Len(responses) THEN st
    ELSE LET resp == responses[i]
         IN  IF resp.status = 200
             THEN IF ~resp.json_ok                      \* await resp.json() raises
                  THEN [st EXCEPT !.raised = TRUE]
                  ELSE IF resp.success
                  THEN ProcessResponses(responses, i + 1,
                           [st EXCEPT !.id_map = AddItems(st.id_map, resp.data, 1)])
                  ELSE ProcessResponses(responses, i + 1, st)
             ELSE IF RaisesForStatus(resp.status)
                  THEN [st EXCEPT !.raised = TRUE]
                  ELSE ProcessResponses(responses, i + 1, st)

\* lines 100-115: asyncio.gather raises when a request failed on the network;
\* otherwise the responses are processed in the order of the urls
BuildMap(responses) ==
    IF \E i \in 1..Len(responses) : responses[i].kind = "neterr"
    THEN [raised |-> TRUE, id_map |-> EmptyDict]
    ELSE ProcessResponses(responses, 1, [raised |-> FALSE, id_map |-> EmptyDict])

(* What the remote catalog may answer.                                      *)
\* an item is a JSON object that may lack the key shareId or the key id
Item(shareId, id) ==
    [has_shareId |-> TRUE, shareId |-> shareId, has_id |-> TRUE, id |-> id]
ItemNoShareId(id) ==
    [has_shareId |-> FALSE, shareId |-> 0, has_id |-> TRUE, id |-> id]
ItemNoId(shareId) ==
    [has_shareId |-> TRUE, shareId |-> shareId, has_id |-> FALSE, id |-> 0]
CatalogV1 == << Item(1, 1101), Item(0, 1102), ItemNoShareId(1103) >>
CatalogV2 == << Item(2, 211011), ItemNoId(1) >>
Bodies == { << >>, CatalogV1, CatalogV2 }
\* a response: its status, whether its body parses as JSON, and the success
\* flag and the data list of the parsed body
Http(status, json_ok, success, data) ==
    [kind |-> "http", status |-> status, json_ok |-> json_ok, success |-> success,
     data |-> data]
CatalogResponses ==
    { [kind |-> "neterr", status |-> 0, json_ok |-> FALSE, success |-> FALSE,
       data |-> << >>],
      Http(404, FALSE, FALSE, << >>), Http(204, FALSE, FALSE, << >>),
      Http(200, FALSE, FALSE, << >>), Http(200, TRUE, FALSE, << >>) }
    \cup { Http(200, TRUE, TRUE, d) : d \in Bodies }

\* a request that failed or returned a non-success response
NonSuccess(resp) == resp.kind = "neterr" \/ resp.status # 200 \/ ~resp.success

\* lines 92-104: the call up to its first suspension.  With a truthy global
\* it returns at once; otherwise it issues both requests and awaits them.
MapCall(t) ==
    /\ mcall[t].pc = "idle"
    /\ \/ /\ Truthy(SHARE_ID_TO_ID_MAP)
          /\ mcall' = [mcall EXCEPT ![t] =
                 [IdleMapCall EXCEPT !.pc = "returned", !.ret = SHARE_ID_TO_ID_MAP,
                                     !.prior = mhist]]
          /\ mhist' = SHARE_ID_TO_ID_MAP
       \/ /\ ~Truthy(SHARE_ID_TO_ID_MAP)
          /\ mcall' = [mcall EXCEPT ![t] =
                 [IdleMapCall EXCEPT !.pc = "gather", !.fetched = TRUE, !.prior = mhist]]
          /\ mhist' = mhist
    /\ UNCHANGED <<token, decoded, SHARE_ID_TO_ID_MAP, image_cache, fcall, deck, hcall>>

\* lines 104-118: both requests have ended; the responses are processed, and
\* the call raises or assigns the global and returns it
MapGather(t) ==
    /\ mcall[t].pc = "gather"
    /\ \E r1, r2 \in CatalogResponses :
         LET built == BuildMap(<<r1, r2>>)
             bad   == NonSuccess(r1) \/ NonSuccess(r2)
         IN  \/ /\ built.raised
                /\ mcall' = [mcall EXCEPT ![t].pc = "raised", ![t].bad = bad]
                /\ UNCHANGED <<SHARE_ID_TO_ID_MAP, mhist>>
             \/ /\ ~built.raised
                /\ SHARE_ID_TO_ID_MAP' = SomeDict(built.id_map)
                /\ mcall' = [mcall EXCEPT ![t].pc = "returned", ![t].bad = bad,
                                          ![t].wrote = TRUE,
                                          ![t].ret = SomeDict(built.id_map)]
                /\ mhist' = SomeDict(built.id_map)
    /\ UNCHANGED <<token, decoded, image_cache, fcall, deck, hcall>>

\* the caller has taken the result or the exception; the task is free again
MapFinish(t) ==
    /\ mcall[t].pc \in {"returned", "raised"}
    /\ mcall' = [mcall EXCEPT ![t] = IdleMapCall]
    /\ UNCHANGED <<token, decoded, SHARE_ID_TO_ID_MAP, mhist, image_cache, fcall,
                   deck, hcall>>

InitCatalog == DecodeIdle /\ CatalogIdle /\ FetchIdle /\ DeckIdle /\ HandlerIdle

NextCatalog == \E t \in MapTasks : MapCall(t) \/ MapGather(t) \/ MapFinish(t)

SpecCatalog == InitCatalog /\ [][NextCatalog]_vars

\* C6: when either catalog request fails or returns a non-success response
\* (a status other than 200, or a success flag that is false), the call raises,
\* does not assign SHARE_ID_TO_ID_MAP, and returns no map.
C6_NonSuccessIsFatal ==
    \A t \in MapTasks :
        (mcall[t].pc \in {"returned", "raised"} /\ mcall[t].bad) =>
            /\ mcall[t].pc = "raised"
            /\ ~mcall[t].wrote
            /\ mcall[t].ret = NoneDict

\* C8: a call started after some call has returned successfully issues no
\* remote request and returns the map that call returned.
C8_BuiltOnceThenReused ==
    \A t \in MapTasks :
        (mcall[t].pc # "idle" /\ ~mcall[t].prior.none) =>
            /\ ~mcall[t].fetched
            /\ mcall[t].pc = "returned" => mcall[t].ret = mcall[t].prior

-----------------------------------------------------------------------------
(* fetch_image.  A file or a response body is named by its content.        *)

PngA == "png-a"
PngB == "png-b"
Junk == "not-an-image"

\* whether Image.open identifies the content as an image
Readable(content) == content \in {PngA, PngB}

\* line 128: the arguments for which the fallback is returned at once
Falsy(card) == card.none \/ card.id = 0

\* Image.open on a file or on the bytes of a response: the image, or the
\* exception raised for content that is no image
ImageOpen(content) == IF Readable(content) THEN ImageOf(content) ELSE Raised

\* open(cache_path, "wb").write(data): the cache and the call's write log after
FileWrite(cache, log, key, data) ==
    [cache |-> [cache EXCEPT ![key] = data],
     log   |-> Append(log, [key |-> key, data |-> data])]

ImageResponses ==
    { [kind |-> "neterr", status |-> 0, body |-> "", read_ok |-> FALSE],
      [kind |-> "http", status |-> 404, body |-> Junk, read_ok |-> TRUE],
      [kind |-> "http", status |-> 200, body |-> "", read_ok |-> FALSE] }
    \cup { [kind |-> "http", status |-> 200, body |-> b, read_ok |-> TRUE] :
             b \in {PngA, PngB, Junk} }

\* a write that is made whatever the status of the response
OnResponse_WriteAlways(cache, log, key, resp) ==
    IF resp.kind = "neterr" \/ ~resp.read_ok
    THEN [cache |-> cache, log |-> log, result |-> Fallback]
    ELSE LET w == FileWrite(cache, log, key, resp.body)
             opened == ImageOpen(resp.body)
         IN  [cache |-> w.cache, log |-> w.log,
              result |-> IF resp.status = 200 /\ opened.kind = "image"
                         THEN opened ELSE Fallback]

\* lines 138-151: the call from the arrival of the response on.  Everything is
\* inside the try, so an exception (the request, the read, Image.open on the
\* bytes) gives the fallback; the file is written before the bytes are opened.
OnResponse(cache, log, key, resp) ==
    IF resp.kind = "neterr"
    THEN [cache |-> cache, log |-> log, result |-> Fallback]
    ELSE IF resp.status = 200
    THEN IF ~resp.read_ok
         THEN [cache |-> cache, log |-> log, result |-> Fallback]
         ELSE LET w == FileWrite(cache, log, key, resp.body)
                  opened == ImageOpen(resp.body)
              IN  [cache |-> w.cache, log |-> w.log,
                   result |-> IF opened.kind = "raised" THEN Fallback ELSE opened]
    ELSE [cache |-> cache, log |-> log, result |-> Fallback]

\* lines 128-139: the call up to its suspension on the request.  A falsy id
\* gives the fallback; an existing cache file is opened outside any try.
FetchCall(t) ==
    /\ fcall[t].pc = "idle"
    /\ \E card \in {NoneId, SomeId(0)} \cup { SomeId(c) : c \in FetchIds } :
         \/ /\ Falsy(card)
            /\ fcall' = [fcall EXCEPT ![t] =
                   [IdleFetchCall EXCEPT !.pc = "done", !.card = card, !.result = Fallback]]
         \/ /\ ~Falsy(card)
            /\ image_cache[card.id] # NoFile
            /\ fcall' = [fcall EXCEPT ![t] =
                   [IdleFetchCall EXCEPT !.pc = "done", !.card = card,
                                         !.result = ImageOpen(image_cache[card.id])]]
         \/ /\ ~Falsy(card)
            /\ image_cache[card.id] = NoFile
            /\ fcall' = [fcall EXCEPT ![t] =
                   [IdleFetchCall EXCEPT !.pc = "get", !.card = card, !.missed = TRUE]]
    /\ UNCHANGED <<token, decoded, SHARE_ID_TO_ID_MAP, mcall, mhist, image_cache,
                   deck, hcall>>

\* lines 139-151: the response (or the failure of the request) arrives
FetchResponse(t) ==
    /\ fcall[t].pc = "get"
    /\ \E resp \in ImageResponses :
         LET out == OnResponse(image_cache, fcall[t].writes, fcall[t].card.id, resp)
         IN  /\ image_cache' = out.cache
             /\ fcall' = [fcall EXCEPT ![t].pc = "done", ![t].resp = resp,
                                       ![t].writes = out.log, ![t].result = out.result]
    /\ UNCHANGED <<token, decoded, SHARE_ID_TO_ID_MAP, mcall, mhist, deck, hcall>>

\* the caller has taken the result; the task is free for another call
FetchFinish(t) ==
    /\ fcall[t].pc = "done"
    /\ fcall' = [fcall EXCEPT ![t] = IdleFetchCall]
    /\ UNCHANGED <<token, decoded, SHARE_ID_TO_ID_MAP, mcall, mhist, image_cache,
                   deck, hcall>>

InitFetch == DecodeIdle /\ CatalogIdle /\ FetchIdle /\ DeckIdle /\ HandlerIdle

NextFetch == \E t \in FetchTasks : FetchCall(t) \/ FetchResponse(t) \/ FetchFinish(t)

SpecFetch == InitFetch /\ [][NextFetch]_vars

\* C5: after any sequence of calls, a fetch_image call returns an image or the
\* fallback and never raises.
C5_FetchNeverRaises ==
    \A t \in FetchTasks :
        fcall[t].pc = "done" => fcall[t].result.kind \in {"image", "fallback"}

\* C9 as stated: a call for an identifier without a cache entry writes exactly
\* one entry, keyed by that identifier, and returns the image of those bytes.
C9_MissWritesOneEntry ==
    \A t \in FetchTasks :
        (fcall[t].pc = "done" /\ fcall[t].missed) =>
            /\ Len(fcall[t].writes) = 1
            /\ fcall[t].writes[1].key = fcall[t].card.id
            /\ fcall[t].result = ImageOf(fcall[t].writes[1].data)

\* C9 amended: a call for an identifier without a cache entry whose request
\* returns status 200 with a body that is read and is an image writes exactly
\* one entry, keyed by that identifier, and returns the image of those bytes;
\* a call whose request fails, whose status is not 200 or whose body cannot be
\* read writes nothing and returns the fallback; no call writes an entry of
\* another identifier.
C9_MissWritesOneEntryOn200 ==
    \A t \in FetchTasks :
        (fcall[t].pc = "done" /\ fcall[t].missed) =>
            LET resp == fcall[t].resp
                good == resp.kind = "http" /\ resp.status = 200 /\ resp.read_ok
            IN  /\ (good /\ Readable(resp.body)) =>
                      /\ Len(fcall[t].writes) = 1
                      /\ fcall[t].writes[1] = [key |-> fcall[t].card.id, data |-> resp.body]
                      /\ fcall[t].result = ImageOf(fcall[t].writes[1].data)
                /\ ~good =>
                      /\ fcall[t].writes = << >>
                      /\ fcall[t].result = Fallback
                /\ \A i \in 1..Len(fcall[t].writes) :
                      fcall[t].writes[i].key = fcall[t].card.id

\* a call that missed the cache has written the image it received and returned
\* it, while the entry of the other identifier holds something else
C9_Witness ==
    \E t \in FetchTasks :
        /\ fcall[t].pc = "done" /\ fcall[t].missed
        /\ fcall[t].result.kind = "image"
        /\ Len(fcall[t].writes) = 1
        /\ image_cache[fcall[t].card.id] = fcall[t].result.bytes
        /\ \E c \in FetchIds : c # fcall[t].card.id /\ image_cache[c] # NoFile

-----------------------------------------------------------------------------
(* generate_deck_image, lines 174-186: from the share ids and the catalog  *)
(* map to the list of card ids handed to fetch_image and to the layout.    *)

DeckLen == 33
MainSlots == 3
MainMinLen == 4
SmallMinLen == 6

\* id_map.get(k, default)
DictGet(d, k, default) == IF k \in DOMAIN d THEN d[k] ELSE default

\* len(str(n)) for an integer n: the decimal digits, and the sign if any
RECURSIVE Digits(_)
Digits(n) == IF n < 10 THEN 1 ELSE 1 + Digits(n \div 10)
StrLen(n) == IF n < 0 THEN 1 + Digits(0 - n) ELSE Digits(n)

\* the list x inserted into an ascending list
RECURSIVE Insert(_, _)
Insert(x, seq) ==
    IF seq = << >> THEN <<x>>
    ELSE IF x < Head(seq) THEN <<x>> \o seq
    ELSE <<Head(seq)>> \o Insert(x, Tail(seq))

\* a list left in the order it has
sorted_Unsorted(seq) == seq

\* sorted(seq) for a list of integers: ascending
RECURSIVE sorted(_)
sorted(seq) == IF seq = << >> THEN << >> ELSE Insert(Head(seq), sorted(Tail(seq)))

\* [f(x) for x in seq if keep(x)] for the two comprehensions of lines 183, 184
RECURSIVE SmallValid(_)
SmallValid(cids) ==
    IF cids = << >> THEN << >>
    ELSE LET cid == Head(cids)
         IN  (IF cid # 0 /\ StrLen(cid) >= SmallMinLen THEN <<cid>> ELSE << >>)
             \o SmallValid(Tail(cids))
RECURSIVE SmallInvalid(_)
SmallInvalid(cids) ==
    IF cids = << >> THEN << >>
    ELSE LET cid == Head(cids)
         IN  (IF cid = 0 \/ StrLen(cid) < SmallMinLen THEN <<NoneId>> ELSE << >>)
             \o SmallInvalid(Tail(cids))

\* lines 178-186
BuildCardIds(share_ids, id_map) ==
    LET card_ids == [ i \in 1..Len(share_ids) |-> DictGet(id_map, share_ids[i], 0) ]
        main_cards == [ i \in 1..MainSlots |->
                          IF card_ids[i] # 0 /\ StrLen(card_ids[i]) >= MainMinLen
                          THEN SomeId(card_ids[i]) ELSE NoneId ]
        rest == SubSeq(card_ids, MainSlots + 1, Len(card_ids))
        valid == sorted(SmallValid(rest))
    IN  main_cards \o [ i \in 1..Len(valid) |-> SomeId(valid[i]) ] \o SmallInvalid(rest)

(* Specification SpecDeck: the construction applied to a family of 33      *)
(* share ids (periodic over 0..MaxShareId) and of catalog maps (the share  *)
(* ids 1..MappedIds mapped into a pool of identifiers of 1 to 7 digits).   *)

MaxShareId == 6
MaxDeckStride == 3
MappedIds == 4
MaxMul == 3

IdPool == << 0, 7, 999, 1101, 13011, 99999, 100000, 211011, 330001, 3300011 >>

MakeShareIds(stride, offset) ==
    [ i \in 1..DeckLen |-> (i * stride + offset) % (MaxShareId + 1) ]
MakeIdMap(mul, shift) ==
    [ sid \in 1..MappedIds |-> IdPool[((sid * mul + shift) % Len(IdPool)) + 1] ]

InitDeck ==
    /\ \E stride \in 1..MaxDeckStride, offset \in 0..MaxShareId,
          mul \in 1..MaxMul, shift \in 0..(Len(IdPool) - 1) :
         deck = [pc |-> "start", share_ids |-> MakeShareIds(stride, offset),
                 id_map |-> MakeIdMap(mul, shift), card_ids |-> << >>]
    /\ DecodeIdle /\ CatalogIdle /\ FetchIdle /\ HandlerIdle

ResolveCardIds ==
    /\ deck.pc = "start"
    /\ deck' = [deck EXCEPT !.pc = "done",
                            !.card_ids = BuildCardIds(deck.share_ids, deck.id_map)]
    /\ UNCHANGED <<token, decoded, SHARE_ID_TO_ID_MAP, mcall, mhist, image_cache,
                   fcall, hcall>>

NextDeck == ResolveCardIds

SpecDeck == InitDeck /\ [][NextDeck]_vars

\* the identifier a share id resolves to, 0 when the map has no entry
Resolved(i) == IF deck.share_ids[i] \in DOMAIN deck.id_map
               THEN deck.id_map[deck.share_ids[i]] ELSE 0

\* C10: the list has 33 entries; entries 0..2 are, position by position, the
\* identifier the share id resolves to, or the placeholder when it is
\* unresolved or has fewer than 4 digits; entries 3..32 are the resolved
\* identifiers of the 30 card slots that have at least 6 digits, in
\* non-decreasing order and with the same multiset, followed only by
\* placeholders.
C10_CardIdListLayout ==
    deck.pc = "done" =>
        LET out == deck.card_ids
        IN  /\ Len(out) = 33
            /\ \A i \in 1..3 :
                  out[i] = IF Resolved(i) >= 1000 THEN SomeId(Resolved(i)) ELSE NoneId
            /\ \E k \in 0..30 :
                  /\ \A i \in 4..(3 + k) : ~out[i].none /\ out[i].id >= 100000
                  /\ \A i \in 4..(2 + k) : out[i].id <= out[i + 1].id
                  /\ \A i \in (4 + k)..33 : out[i] = NoneId
            /\ \A v \in { Resolved(i) : i \in 4..33 } \cup { out[i].id : i \in 4..33 } :
                  v >= 100000 =>
                      Cardinality({ i \in 4..33 : ~out[i].none /\ out[i].id = v })
                        = Cardinality({ i \in 4..33 : Resolved(i) = v })

\* a deck whose card slots resolve to valid identifiers in an order that is
\* not ascending, with placeholders among both the main and the card slots
C10_Witness ==
    /\ deck.pc = "done"
    /\ \E i, j \in 4..33 : i < j /\ Resolved(i) >= 100000 /\ Resolved(j) >= 100000
                            /\ Resolved(i) > Resolved(j)
    /\ \E i \in 4..33 : deck.card_ids[i] = NoneId
    /\ \E i \in 4..33 : Resolved(i) \in 1..99999
    /\ \E i, j \in 1..3 : deck.card_ids[i] = NoneId /\ deck.card_ids[j] # NoneId

-----------------------------------------------------------------------------
(* The two handlers around generate_deck_image.                            *)

MinCodeLen == 68
MaxCodeLen == 70
MaxCodePads == 2

Whitespace == { " " }

\* str.strip()
Strip(txt) ==
    LET keep == { i \in 1..Len(txt) : txt[i] \notin Whitespace }
    IN  IF keep = {} THEN << >>
        ELSE SubSeq(txt, CHOOSE i \in keep : \A j \in keep : i <= j,
                         CHOOSE i \in keep : \A j \in keep : i >= j)

\* the number of consecutive characters of txt from position i on that are in cls
RunLen(txt, i, cls) ==
    LET stop == { j \in i..Len(txt) : txt[j] \notin cls }
    IN  IF stop = {} THEN Len(txt) - i + 1
        ELSE (CHOOSE j \in stop : \A k \in stop : j <= k) - i

Min(a, b) == IF a <= b THEN a ELSE b

\* re.search(r'[A-Za-z0-9+/]{68,70}={0,2}', txt): the leftmost match, greedy;
\* [found, text]
RegexSearch(txt) ==
    LET starts == { i \in 1..Len(txt) : RunLen(txt, i, AlphabetChars) >= MinCodeLen }
    IN  IF starts = {} THEN [found |-> FALSE, text |-> << >>]
        ELSE LET i == CHOOSE x \in starts : \A y \in starts : x <= y
                 n == Min(RunLen(txt, i, AlphabetChars), MaxCodeLen)
                 p == Min(RunLen(txt, i + n, {"="}), MaxCodePads)
             IN  [found |-> TRUE, text |-> SubSeq(txt, i, i + n + p - 1)]

\* lines 243-246 and 264-273: the share code the handler passes on, if any
ExtractCode(kind, txt) ==
    IF kind = "deck"
    THEN [found |-> Strip(txt) # << >>, text |-> Strip(txt)]
    ELSE LET m == RegexSearch(txt)
         IN  [found |-> m.found, text |-> Strip(m.text)]

\* lines 256-257 and 283-285: what the handler does with a ValueError
OnValueError(kind) == IF kind = "deck" THEN <<"text">> ELSE << >>

\* lines 175-190 once the map is there: the decode, and either the ValueError
\* handled by the handler or the start of the image fetches
AfterMap(call, code) ==
    IF decode_share_ids(code).kind = "ok"
    THEN [call EXCEPT !.pc = "images"]
    ELSE [call EXCEPT !.pc = "done", !.failure = "decode",
                      !.sent = call.sent \o OnValueError(call.kind)]

(* the message texts of the handler specification *)
GoodCode == MakeToken(MinCodeLen, 1, 0, 1, 0)
HandlerTexts ==
    { GoodCode,
      GoodCode \o <<" ">>,
      GoodCode \o <<"=">>,
      <<"h", "i", " ">> \o GoodCode,
      MakeToken(MinCodeLen, 1, 0, 2, 1),
      MakeToken(MinCodeLen + 1, 1, 0, 1, 0),
      MakeToken(MaxCodeLen, 1, 0, 1, 0),
      <<"h", "i">>,
      << >> }

\* the handler is called: it extracts the code and enters generate_deck_image,
\* which runs get_card_id_map up to its suspension (lines 92-104) or, with a
\* truthy global, goes on to the decode at once
HandlerStart(h) ==
    /\ hcall[h].pc = "idle"
    /\ \E kind \in {"deck", "base64"}, txt \in HandlerTexts :
         LET m == ExtractCode(kind, txt)
             call == [IdleHandler EXCEPT !.kind = kind, !.code = m.text]
         IN  \/ /\ ~m.found
                /\ hcall' = [hcall EXCEPT ![h] = [call EXCEPT !.pc = "done"]]
             \/ /\ m.found
                /\ Truthy(SHARE_ID_TO_ID_MAP)
                /\ hcall' = [hcall EXCEPT ![h] = AfterMap(call, m.text)]
             \/ /\ m.found
                /\ ~Truthy(SHARE_ID_TO_ID_MAP)
                /\ hcall' = [hcall EXCEPT ![h] = [call EXCEPT !.pc = "gather"]]
    /\ UNCHANGED <<token, decoded, SHARE_ID_TO_ID_MAP, mcall, mhist, image_cache,
                   fcall, deck>>

\* the catalog responses arrive (lines 104-118): the exception of a failed
\* build is no ValueError and leaves the handler; otherwise the global is
\* assigned and the decode follows
HandlerGather(h) ==
    /\ hcall[h].pc = "gather"
    /\ \E built \in { BuildMap(<<r1, r2>>) : r1, r2 \in CatalogResponses } :
         \/ /\ built.raised
            /\ hcall' = [hcall EXCEPT ![h].pc = "done", ![h].failure = "catalog",
                                      ![h].exc = "ClientError"]
            /\ UNCHANGED SHARE_ID_TO_ID_MAP
         \/ /\ ~built.raised
            /\ SHARE_ID_TO_ID_MAP' = SomeDict(built.id_map)
            /\ hcall' = [hcall EXCEPT ![h] = AfterMap(hcall[h], hcall[h].code)]
    /\ UNCHANGED <<token, decoded, mcall, mhist, image_cache, fcall, deck>>

\* the image fetches end (line 190): the image is composed and sent, or a
\* fetch_image call raised on an unreadable cache file and the exception
\* leaves the handler
HandlerImages(h) ==
    /\ hcall[h].pc = "images"
    /\ \/ hcall' = [hcall EXCEPT ![h].pc = "done",
                                 ![h].sent = hcall[h].sent \o <<"image">>]
       \/ hcall' = [hcall EXCEPT ![h].pc = "done", ![h].exc = "OSError"]
    /\ UNCHANGED <<token, decoded, SHARE_ID_TO_ID_MAP, mcall, mhist, image_cache,
                   fcall, deck>>

\* the handler has ended; the slot takes the next message
HandlerFinish(h) ==
    /\ hcall[h].pc = "done"
    /\ hcall' = [hcall EXCEPT ![h] = IdleHandler]
    /\ UNCHANGED <<token, decoded, SHARE_ID_TO_ID_MAP, mcall, mhist, image_cache,
                   fcall, deck>>

InitHandlers == DecodeIdle /\ CatalogIdle /\ FetchIdle /\ DeckIdle /\ HandlerIdle

NextHandlers ==
    \E h \in Requests :
        HandlerStart(h) \/ HandlerGather(h) \/ HandlerImages(h) \/ HandlerFinish(h)

SpecHandlers == InitHandlers /\ [][NextHandlers]_vars

\* C7: a request whose token fails to decode or whose catalog resolution
\* fails gets a textual explanation and no image, in either handler.
C7_FailureExplainedInText ==
    \A h \in Requests :
        (hcall[h].pc = "done" /\ hcall[h].failure # "none") =>
            hcall[h].sent = <<"text">>

====
